---------------------------- MODULE Spec2Model ----------------------------
(***************************************************************************)
(* Request orchestration of aiobinance.BinanceAsync: one logical call      *)
(* (_split_request_interval, _paginatedRequests, _tradesCycle, klines)     *)
(* running on the asyncio event loop together with the _request tasks it   *)
(* creates.  Python values are tagged records, dicts are insertion-ordered *)
(* sequences of key/value pairs held in a heap, so that two names for the  *)
(* same dict see each other's writes.                                      *)
(***************************************************************************)
EXTENDS Integers, Sequences, FiniteSets, TLC

VARIABLES
    kind,         \* which logical operation the parent coroutine runs
    enforceLimit, \* spotTrades(enforceLimit=...)
    maxRange,     \* _split_request_interval(maxRange=...) / klines STEP
    baseStep,     \* klines BASE_STEP (0 for the other operations)
    heap,         \* the dicts alive in the process; heap[1] is the caller's params
    pc,           \* position of the parent coroutine
    cursor,       \* loop variable of the parent's for loop
    tasks,        \* every _request call made so far, in creation order
    awaited,      \* index of the call the parent awaits inline (0: none)
    resp,         \* parent local `resp`
    data,         \* parent local `data`
    result,       \* outcome of the logical call
    granted,      \* per limiter: total weight handed out by acquire
    failedFirst,  \* first task of the fan-out whose exception reached gather
    reordered,    \* a fan-out task has finished before one created earlier
    orphaned,     \* a task has begun to run after its parent had stopped waiting
    now,          \* wall clock in ms, read by _preparePayload
    args,         \* the arguments of the public method called (NoArgs: a helper called directly)
    serverTotal,  \* server side: number of fiat orders on record
    serverTrades, \* server side: ids of the account's trades (NoneV: not fixed)
    PUBLIC_IP     \* AsyncExchange.PUBLIC_IP, the class attribute all instances share

parentVars == <<kind, enforceLimit, maxRange, baseStep, pc, cursor, awaited, resp, data, result>>
envVars == <<now, args, serverTotal, serverTrades, PUBLIC_IP>>
gatherVars == <<failedFirst, reordered, orphaned>>
vars == <<parentVars, heap, tasks, granted, gatherVars, envVars>>

---------------------------------------------------------------------------
(* Bounds of the model *)

MaxTime == 3        \* timestamps range over 0..MaxTime
MaxSpan == 2        \* maxRange ranges over 1..MaxSpan
MaxItems == 1       \* a slice's response holds 0..MaxItems items
MaxLimit == 2       \* params["limit"] ranges over 1..MaxLimit
MaxCalls == 3       \* _tradesCycle: the server stops filling pages after MaxCalls requests
MaxRows == 2        \* params["rows"] ranges over 1..MaxRows
MaxTotal == 4       \* the server holds 0..MaxTotal fiat orders
MaxClock == 2       \* the clock runs over 0..MaxClock
MaxSession == 3     \* direct _request calls an application has running at once
MaxStep == 2        \* klines: the candle interval BASE_STEP ranges over 1..MaxStep ms
MaxKeys == 2        \* a params dict given to _preparePayload holds 1..MaxKeys keys
MaxCode == 600      \* HTTP status codes range over 100..MaxCode
MaxTrades == 4      \* the server's trades have ids in 1..MaxTrades
MaxClients == 2     \* BinanceAsync instances in the process
MaxCallers == 3     \* coroutines that call _getPublicIP
IdStride == 10      \* ids the server gives to the items of the t-th request start at t*IdStride

---------------------------------------------------------------------------
(* Python values and dicts *)

NoneV == [t |-> "none"]
NoArgs == [method |-> "none"]
IntV(n) == [t |-> "int", i |-> n]
\* str(n): the decimal text of the integer n
StrV(n) == [t |-> "str", s |-> n]

BoolV(b) == [t |-> "bool", b |-> b]
\* a str as the sequence of its characters
TextV(chars) == [t |-> "text", c |-> chars]
ListV(elems) == [t |-> "list", l |-> elems]

\* bool(v): None and 0 are falsy
Truthy(v) == v.t = "int" /\ v.i # 0

Has(d, k) == \E j \in 1..Len(d) : d[j].k = k
Get(d, k) == d[CHOOSE j \in 1..Len(d) : d[j].k = k].v
\* d[k] = v: an existing key keeps its position, a new key goes last
Put(d, k, v) ==
    IF Has(d, k)
    THEN [j \in 1..Len(d) |-> IF d[j].k = k THEN [k |-> k, v |-> v] ELSE d[j]]
    ELSE Append(d, [k |-> k, v |-> v])
\* d.pop(k, None)
Pop(d, k) == SelectSeq(d, LAMBDA e : e.k # k)

RECURSIVE Flatten(_)
Flatten(ss) == IF ss = << >> THEN << >> ELSE Head(ss) \o Flatten(Tail(ss))

Min(a, b) == IF a < b THEN a ELSE b

---------------------------------------------------------------------------
(* endpoints.py / baseEndpoint.py: the catalog and its limiters *)

api_LIMIT == 6000
sapi_IP_LIMIT == 12000
sapi_UID_LIMIT == 180000
sapi_IP_LIMIT_SEC == 180000

SIGNED == {"TRADE", "USER_DATA"}

\* the members of the enum, each URL as its prefix and the rest of the path
Endpoints ==
    [
      COINS |-> [URL |-> <<"sapi", "v1/capital/config/getall">>, METHOD |-> "GET",
          WEIGHT |-> 10, SECURITY |-> "USER_DATA", LIMIT_TYPE |-> "IP"],
      USER_ASSETS |-> [URL |-> <<"sapi", "v3/asset/getUserAsset">>, METHOD |-> "POST",
          WEIGHT |-> 5, SECURITY |-> "USER_DATA", LIMIT_TYPE |-> "IP"],
      ACCOUNT_SNAPSHOT |-> [URL |-> <<"sapi", "v1/accountSnapshot">>, METHOD |-> "GET",
          WEIGHT |-> 2400, SECURITY |-> "USER_DATA", LIMIT_TYPE |-> "IP"],
      DIVIDEND |-> [URL |-> <<"sapi", "v1/asset/assetDividend">>, METHOD |-> "GET",
          WEIGHT |-> 10, SECURITY |-> "USER_DATA", LIMIT_TYPE |-> "IP"],
      DUSTLOG |-> [URL |-> <<"sapi", "v1/asset/dribblet">>, METHOD |-> "GET",
          WEIGHT |-> 1, SECURITY |-> "USER_DATA", LIMIT_TYPE |-> "IP"],
      WITHDRAW_HISTORY |-> [URL |-> <<"sapi", "v1/capital/withdraw/history">>, METHOD |-> "GET",
          WEIGHT |-> 18000, SECURITY |-> "USER_DATA", LIMIT_TYPE |-> "IP_SEC"],
      DEPOSIT_HISTORY |-> [URL |-> <<"sapi", "v1/capital/deposit/hisrec">>, METHOD |-> "GET",
          WEIGHT |-> 1, SECURITY |-> "USER_DATA", LIMIT_TYPE |-> "IP"],
      FIAT_ORDERS |-> [URL |-> <<"sapi", "v1/fiat/orders">>, METHOD |-> "GET",
          WEIGHT |-> 90000, SECURITY |-> "USER_DATA", LIMIT_TYPE |-> "UID"],
      REBATE |-> [URL |-> <<"sapi", "v1/rebate/taxQuery">>, METHOD |-> "GET",
          WEIGHT |-> 12000, SECURITY |-> "USER_DATA", LIMIT_TYPE |-> "UID"],
      CONVERT_HISTORY |-> [URL |-> <<"sapi", "v1/convert/tradeFlow">>, METHOD |-> "GET",
          WEIGHT |-> 3000, SECURITY |-> "USER_DATA", LIMIT_TYPE |-> "UID"],
      AUTOINVEST_SUB |-> [URL |-> <<"sapi", "v1/lending/auto-invest/history/list">>, METHOD |-> "GET",
          WEIGHT |-> 1, SECURITY |-> "USER_DATA", LIMIT_TYPE |-> "IP"],
      SE_FLEX_REWARDS |-> [URL |-> <<"sapi", "v1/simple-earn/flexible/history/rewardsRecord">>, METHOD |-> "GET",
          WEIGHT |-> 150, SECURITY |-> "USER_DATA", LIMIT_TYPE |-> "IP"],
      SPOT_TRADES |-> [URL |-> <<"api", "v3/myTrades">>, METHOD |-> "GET",
          WEIGHT |-> 20, SECURITY |-> "USER_DATA", LIMIT_TYPE |-> "IP"],
      EXCHANGE_INFO |-> [URL |-> <<"api", "v3/exchangeInfo">>, METHOD |-> "GET",
          WEIGHT |-> 20, SECURITY |-> "NONE", LIMIT_TYPE |-> "IP"],
      KLINES |-> [URL |-> <<"api", "v3/klines">>, METHOD |-> "GET",
          WEIGHT |-> 2, SECURITY |-> "NONE", LIMIT_TYPE |-> "IP"] ]

\* the members BinanceAsync sends requests to
EndpointNames == {"SPOT_TRADES", "KLINES", "FIAT_ORDERS", "USER_ASSETS", "EXCHANGE_INFO"}

\* URL.split("/", maxsplit=2)[1]
API_TYPE(ep) == Endpoints[ep].URL[1]

\* a constructor that gives every endpoint, /api ones included, a limiter of its own
LimiterPerEndpoint(ep) ==
    [name |-> ep,
     max_rate |-> IF API_TYPE(ep) = "api" THEN api_LIMIT
                  ELSE CASE Endpoints[ep].LIMIT_TYPE = "UID" -> sapi_UID_LIMIT
                         [] Endpoints[ep].LIMIT_TYPE = "IP" -> sapi_IP_LIMIT
                         [] Endpoints[ep].LIMIT_TYPE = "IP_SEC" -> sapi_IP_LIMIT_SEC,
     time_period |-> IF Endpoints[ep].LIMIT_TYPE = "IP_SEC" /\ API_TYPE(ep) = "sapi" THEN 1 ELSE 60]

\* BaseEndpoint.__init__: the limiter the endpoint draws from.  /api endpoints all
\* hold the class-level _sharedLimiter, a /sapi endpoint builds one of its own.
Limiter(ep) ==
    IF API_TYPE(ep) = "sapi"
    THEN [name |-> ep,
          max_rate |-> CASE Endpoints[ep].LIMIT_TYPE = "UID" -> sapi_UID_LIMIT
                         [] Endpoints[ep].LIMIT_TYPE = "IP" -> sapi_IP_LIMIT
                         [] Endpoints[ep].LIMIT_TYPE = "IP_SEC" -> sapi_IP_LIMIT_SEC,
          time_period |-> IF Endpoints[ep].LIMIT_TYPE = "IP_SEC" THEN 1 ELSE 60]
    ELSE [name |-> "_sharedLimiter", max_rate |-> api_LIMIT, time_period |-> 60]

LimiterNames == {Limiter(ep).name : ep \in EndpointNames}

\* BaseEndpoint.acquire: await self._limiter.acquire(amount=self.WEIGHT), as the
\* amount it asks the endpoint's limiter for.  When the limiter lets the caller
\* through is the limiter's decision: the action that acquires fires at any time.
acquire(ep) == Endpoints[ep].WEIGHT

\* a context manager that lets the caller in without asking the limiter
aenterWithoutAcquire(ep) == << >>

\* BaseEndpoint.__aenter__: the acquire calls made on entering `async with baseEndpoint`
__aenter__(ep) == << acquire(ep) >>

\* a context manager that hands the acquired weight back on leaving the block
aexitReleases(ep) == << Endpoints[ep].WEIGHT >>

\* BaseEndpoint.__aexit__: `return None` -- the amounts it gives back to the limiter
\* when the block is left, normally or by an exception: none
__aexit__(ep) == << >>

RECURSIVE Sum(_)
Sum(amounts) == IF amounts = << >> THEN 0 ELSE Head(amounts) + Sum(Tail(amounts))

---------------------------------------------------------------------------
(* BinanceAsync._preparePayload and _sign *)

RECV_WINDOW == StrV(5000)

\* _sign/_encrypt: HMAC-SHA256 of the url-encoded payload, kept as the message it covers
_sign(payload) == [t |-> "hmac", msg |-> payload]

\* `v is None or (hasattr(v, "__len__") and len(v) == 0)`
Skipped(v) ==
    \/ v.t = "none"
    \/ v.t = "text" /\ Len(v.c) = 0
    \/ v.t = "list" /\ Len(v.l) = 0

\* the loop over params.items(): None values and empty collections are skipped
Filtered(params) == SelectSeq(params, LAMBDA e : ~Skipped(e.v))

\* str(v) of a bool, and str.lower() on the characters that occur
PyStr(b) == IF b THEN <<"T", "r", "u", "e">> ELSE <<"F", "a", "l", "s", "e">>
LowerChar(ch) == CASE ch = "T" -> "t" [] ch = "F" -> "f" [] OTHER -> ch
Lower(chars) == [j \in 1..Len(chars) |-> LowerChar(chars[j])]

\* the decimal digits of a natural number
DigitChars == <<"0", "1", "2", "3", "4", "5", "6", "7", "8", "9">>
RECURSIVE Digits(_)
Digits(n) ==
    IF n < 10 THEN << DigitChars[n + 1] >>
    ELSE Digits(n \div 10) \o << DigitChars[(n % 10) + 1] >>

\* json.dumps(v, separators=(",", ":")) of a list of ints and strs
JsonItem(v) ==
    IF v.t = "int" THEN Digits(v.i) ELSE <<"\"">> \o v.c \o <<"\"">>
RECURSIVE JsonItems(_)
JsonItems(l) ==
    IF Len(l) = 0 THEN << >>
    ELSE IF Len(l) = 1 THEN JsonItem(l[1])
    ELSE JsonItem(l[1]) \o <<",">> \o JsonItems(Tail(l))
JsonDumps(l) == <<"[">> \o JsonItems(l) \o <<"]">>

\* a converter that passes booleans on as they are
ConvertedKeepsBool(v) ==
    CASE v.t = "list" -> TextV(JsonDumps(v.l))
      [] OTHER -> v

\* the value stored under the key: bool and list are turned into text
Converted(v) ==
    CASE v.t = "bool" -> TextV(Lower(PyStr(v.b)))
      [] v.t = "list" -> TextV(JsonDumps(v.l))
      [] OTHER -> v

\* a version that signs before recvWindow and timestamp are in the payload
_preparePayloadSignsFirst(params, security, clock) ==
    LET kept == Filtered(params)
        payload == [j \in 1..Len(kept) |-> [k |-> kept[j].k, v |-> Converted(kept[j].v)]]
        signed == Put(payload, "signature", _sign(payload))
    IN IF security \in SIGNED
       THEN Put(Put(signed, "recvWindow", RECV_WINDOW), "timestamp", StrV(clock))
       ELSE payload

_preparePayload(params, security, clock) ==
    LET kept == Filtered(params)
        payload == [j \in 1..Len(kept) |-> [k |-> kept[j].k, v |-> Converted(kept[j].v)]]
        stamped == Put(Put(payload, "recvWindow", RECV_WINDOW), "timestamp", StrV(clock))
    IN IF security \in SIGNED
       THEN Put(stamped, "signature", _sign(stamped))
       ELSE payload

---------------------------------------------------------------------------
(* The remote server *)

ServerCodes == {200, 400}

NoBody == [kind |-> "none"]
ListBody(items) == [kind |-> "list", items |-> items]
PageBody(items, total) == [kind |-> "page", data |-> items, total |-> total]
\* the JSON object {"code": ..., "msg": ...} the exchange sends with an error status
ErrorBody(code) == [kind |-> "error", code |-> code]
\* the JSON object /api/v3/exchangeInfo answers with
InfoBody == [kind |-> "info"]

\* what iterating a decoded body yields: a list's items, a dict's keys
ErrorKeys == << -1, -2 >>   \* stand for the keys "code" and "msg"
Iter(body) == IF body.kind = "list" THEN body.items ELSE ErrorKeys

SentInt(sent, k, default) == IF Has(sent, k) THEN Get(sent, k).i ELSE default

\* ids of the n items answering the t-th request: from the cursor when the request
\* carries fromId, else from t*IdStride
TradeItems(t, sent, n) ==
    LET from == SentInt(sent, "fromId", t * IdStride)
    IN [j \in 1..n |-> from + j - 1]

\* a kline as [open time, open price]: the price arrives as a decimal string
KlineItems(t, sent, n) ==
    [j \in 1..n |-> <<t * IdStride + j - 1, [t |-> "str", s |-> j]>>]

\* page `page` of the serverTotal fiat orders, `rows` per page, in answer to the
\* t-th request: each item is [order number, t], the copy of that order this
\* response delivered
PageItems(t, sent, total) ==
    LET rows == SentInt(sent, "rows", 1)
        page == SentInt(sent, "page", 1)
        lo == (page - 1) * rows + 1
        hi == Min(page * rows, total)
    IN [j \in 1..(IF hi >= lo THEN hi - lo + 1 ELSE 0) |-> <<lo + j - 1, t>>]

\* the elements of a set of numbers in increasing order
Sorted(S) == [j \in 1..Cardinality(S) |->
                CHOOSE x \in S : Cardinality({y \in S : y < x}) = j - 1]

\* a server whose trades are fixed: the first `limit` trades with id >= fromId, from
\* the oldest trade when the request carries no fromId
FirstTrades(sent) ==
    LET limit == SentInt(sent, "limit", MaxItems)
        from == SentInt(sent, "fromId", 0)
        rest == Sorted({x \in serverTrades.ids : x >= from})
    IN SubSeq(rest, 1, Min(limit, Len(rest)))

\* the bodies the server may send with status 200 to the t-th request
OkBodies(t, ep, sent, total, ncalls) ==
    CASE ep = "SPOT_TRADES" ->
           LET limit == SentInt(sent, "limit", MaxItems)
               most == IF kind = "trades"
                       THEN (IF ncalls >= MaxCalls THEN limit - 1 ELSE limit)
                       ELSE Min(limit, MaxItems)
           IN IF serverTrades.t = "set"
              THEN {ListBody(FirstTrades(sent))}
              ELSE {ListBody(TradeItems(t, sent, n)) : n \in 0..most}
      [] ep = "KLINES" -> {ListBody(KlineItems(t, sent, n)) : n \in 0..MaxItems}
      [] ep = "FIAT_ORDERS" -> {PageBody(PageItems(t, sent, total), total)}
      [] ep = "USER_ASSETS" -> {ListBody(<< >>)}
      [] ep = "EXCHANGE_INFO" -> {InfoBody}

\* the exchange records one more fiat order of the account while the client waits
\* datetime.now(): the wall clock moves on
Tick ==
    /\ now < MaxClock
    /\ now' = now + 1
    /\ UNCHANGED <<parentVars, heap, tasks, granted, gatherVars, args, serverTotal,
                   serverTrades, PUBLIC_IP>>

ServerRecord ==
    /\ kind = "paged"
    /\ pc \in {"await", "gather", "done"}
    /\ serverTotal < MaxTotal
    /\ \E t \in 1..Len(tasks) : tasks[t].pc \in {"created", "entered", "sent"}
    /\ serverTotal' = serverTotal + 1
    /\ UNCHANGED <<parentVars, heap, tasks, granted, gatherVars, now, args,
                   serverTrades, PUBLIC_IP>>

---------------------------------------------------------------------------
(* BinanceAsync._request, one call = one entry of `tasks` *)

NewTask(ep, fn, params, inline) ==
    [self |-> 1,           \* the BinanceAsync instance the call is made on
     ep |-> ep, fn |-> fn, params |-> params, inline |-> inline, pc |-> "created", acquired |-> << >>,
     sent |-> << >>, status |-> 0, ret |-> NoBody, exc |-> "none",
     createdAt |-> now,    \* clock when _request was called
     grantedAt |-> 0]      \* clock when the limiter let the call through

\* the parent coroutine is suspended (the event loop runs one coroutine at a time,
\* and the parent only yields at an await)
ParentSuspended == pc \in {"await", "gather", "done"}

\* _baseKlines: float(field) for the string fields of every kline; iterating an
\* error object walks the characters of its keys and float("o") raises ValueError
ToFloat(field) == [t |-> "float", f |-> field.s]
_baseKlines(body) ==
    IF body.kind = "list"
    THEN [exc |-> "none",
          ret |-> ListBody([j \in 1..Len(body.items) |->
                              <<body.items[j][1], ToFloat(body.items[j][2])>>])]
    ELSE [exc |-> "ValueError", ret |-> NoBody]

\* a client that keeps limiters of its own for every instance but the first
LimiterOfClient(self, ep) ==
    [Limiter(ep) EXCEPT !.name = IF self = 1 THEN @ ELSE "own"]

\* baseEndpoint = endPoint.value; async with baseEndpoint: the limiter a request of
\* instance `self` acquires from is the one held by the enum member's descriptor
LimiterOf(self, ep) == Limiter(ep)

\* `async with baseEndpoint:` is entered: the limiter grants what __aenter__ asks for
RequestEnter(t) ==
    /\ ParentSuspended
    /\ t \in 1..Len(tasks)
    /\ tasks[t].pc = "created"
    /\ LET ep == tasks[t].ep
       IN /\ granted' = [granted EXCEPT ![LimiterOf(tasks[t].self, ep).name] =
                                          @ + Sum(__aenter__(ep))]
          /\ tasks' = [tasks EXCEPT ![t].pc = "entered", ![t].acquired = __aenter__(ep),
                                    ![t].grantedAt = now]
          /\ orphaned' = (orphaned \/ pc = "done")
    /\ UNCHANGED <<parentVars, heap, failedFirst, reordered, envVars>>

\* a _request that stamps the payload with the time of the call, not of the send
RequestSendStale(t) ==
    /\ ParentSuspended
    /\ t \in 1..Len(tasks)
    /\ tasks[t].pc = "entered"
    /\ tasks' = [tasks EXCEPT
                   ![t].pc = "sent",
                   ![t].sent = _preparePayload(heap[tasks[t].params],
                                               Endpoints[tasks[t].ep].SECURITY,
                                               tasks[t].createdAt)]
    /\ UNCHANGED <<parentVars, heap, granted, gatherVars, envVars>>

\* inside the block the payload is prepared from the dict `params` names at that
\* moment and the request goes out; the coroutine then waits for the response
RequestSend(t) ==
    /\ ParentSuspended
    /\ t \in 1..Len(tasks)
    /\ tasks[t].pc = "entered"
    /\ tasks' = [tasks EXCEPT
                   ![t].pc = "sent",
                   ![t].sent = _preparePayload(heap[tasks[t].params],
                                               Endpoints[tasks[t].ep].SECURITY, now)]
    /\ UNCHANGED <<parentVars, heap, granted, gatherVars, envVars>>

\* what `return data` hands back for a decoded body with the given status
_request(status, body) == [exc |-> "none", ret |-> body]

\* the block `async with baseEndpoint:` is left with the value or the exception `out`
Finish(t, status, out) ==
    /\ granted' = [granted EXCEPT ![LimiterOf(tasks[t].self, tasks[t].ep).name] =
                                    @ - Sum(__aexit__(tasks[t].ep))]
    /\ tasks' = [tasks EXCEPT ![t].pc = IF out.exc = "none" THEN "done" ELSE "failed",
                              ![t].status = status,
                              ![t].ret = out.ret,
                              ![t].exc = out.exc]
    /\ failedFirst' = IF out.exc # "none" /\ failedFirst = 0 /\ ~tasks[t].inline
                      THEN t ELSE failedFirst
    /\ reordered' = (reordered \/ (~tasks[t].inline /\
                        \E u \in 1..(t - 1) : ~tasks[u].inline /\ tasks[u].pc \notin {"done", "failed"}))

Through(t, out) ==
    IF tasks[t].fn = "_baseKlines" /\ out.exc = "none" THEN _baseKlines(out.ret) ELSE out

\* the response arrives and resp.json() decodes it
RequestReceive(t) ==
    /\ ParentSuspended
    /\ t \in 1..Len(tasks)
    /\ tasks[t].pc = "sent"
    /\ \E code \in ServerCodes :
         \E body \in (IF code = 200
                      THEN OkBodies(t, tasks[t].ep, tasks[t].sent, serverTotal, Len(tasks))
                      ELSE {ErrorBody(code)}) :
            Finish(t, code, Through(t, _request(code, body)))
    /\ UNCHANGED <<parentVars, heap, orphaned, envVars>>

\* the response of a server that answers every request with status 200
RequestAnswered(t) ==
    /\ ParentSuspended
    /\ t \in 1..Len(tasks)
    /\ tasks[t].pc = "sent"
    /\ \E body \in OkBodies(t, tasks[t].ep, tasks[t].sent, serverTotal, Len(tasks)) :
         Finish(t, 200, Through(t, _request(200, body)))
    /\ UNCHANGED <<parentVars, heap, orphaned, envVars>>

\* the connection fails (aiohttp.ClientError) or the body is not JSON
RequestFail(t) ==
    /\ ParentSuspended
    /\ t \in 1..Len(tasks)
    /\ tasks[t].pc = "sent"
    /\ \E e \in {"TransportError", "DecodeError"} :
         Finish(t, IF e = "DecodeError" THEN 200 ELSE 0, [exc |-> e, ret |-> NoBody])
    /\ UNCHANGED <<parentVars, heap, orphaned, envVars>>

---------------------------------------------------------------------------
(* asyncio.gather of the tasks *)

FanOut == {t \in 1..Len(tasks) : ~tasks[t].inline}

Return(v) == [kind |-> "return", value |-> v, exc |-> "none"]
Raise(e) == [kind |-> "raise", value |-> << >>, exc |-> e]
Running == [kind |-> "running", value |-> << >>, exc |-> "none"]

\* the results of the gathered tasks, last task first
GatheredReversed ==
    [j \in 1..Cardinality(FanOut) |->
        tasks[CHOOSE t \in FanOut : Cardinality({u \in FanOut : u > t}) = j - 1].ret]

\* the results of the gathered tasks, in the order the tasks were passed
Gathered == [j \in 1..Cardinality(FanOut) |->
               tasks[CHOOSE t \in FanOut : Cardinality({u \in FanOut : u < t}) = j - 1].ret]

\* len(resp): the items of a list, the keys of a dict
Len_(body) == Len(Iter(body))

---------------------------------------------------------------------------
(* BinanceAsync._split_request_interval *)

\* payload = params.copy(); the loop variable starts at START_MS
SplitStart ==
    /\ pc = "start" /\ kind = "split"
    /\ heap' = Append(heap, heap[1])
    /\ cursor' = Get(heap[1], "startTime").i
    /\ pc' = "loop"
    /\ UNCHANGED <<kind, enforceLimit, maxRange, baseStep, awaited, resp, data, result,
                   tasks, granted, gatherVars, envVars>>

\* the loop without the min: every slice is maxRange long
SplitLoopNoClamp ==
    /\ pc = "loop" /\ kind = "split"
    /\ LET END_MS == Get(heap[1], "endTime").i
       IN IF cursor < END_MS
          THEN /\ heap' = [heap EXCEPT ![2] =
                             Put(Put(@, "startTime", IntV(cursor)),
                                 "endTime", IntV(cursor + maxRange))]
               /\ tasks' = Append(tasks, NewTask("SPOT_TRADES", "_request", 2, FALSE))
               /\ cursor' = cursor + maxRange
               /\ pc' = pc
          ELSE /\ pc' = "gather"
               /\ UNCHANGED <<heap, tasks, cursor>>
    /\ UNCHANGED <<kind, enforceLimit, maxRange, baseStep, awaited, resp, data, result,
                   granted, gatherVars, envVars>>

\* one iteration of `for start in range(START_MS, END_MS, maxRange)`, or its end
SplitLoop ==
    /\ pc = "loop" /\ kind = "split"
    /\ LET END_MS == Get(heap[1], "endTime").i
       IN IF cursor < END_MS
          THEN /\ heap' = [heap EXCEPT ![2] =
                             Put(Put(@, "startTime", IntV(cursor)),
                                 "endTime", IntV(Min(END_MS, cursor + maxRange)))]
               /\ tasks' = Append(tasks, NewTask("SPOT_TRADES", "_request", 2, FALSE))
               /\ cursor' = cursor + maxRange
               /\ pc' = pc
          ELSE /\ pc' = "gather"
               /\ UNCHANGED <<heap, tasks, cursor>>
    /\ UNCHANGED <<kind, enforceLimit, maxRange, baseStep, awaited, resp, data, result,
                   granted, gatherVars, envVars>>

\* a gather step that sends a follow-up request when a slice came back as a full page
SplitGatherFollowsUp ==
    /\ pc = "gather" /\ kind = "split"
    /\ \A t \in FanOut : tasks[t].pc = "done"
    /\ IF /\ Len(tasks) < 2 * MaxTime + 2
          /\ \E t \in FanOut : Len_(tasks[t].ret) >= Get(heap[1], "limit").i
       THEN /\ tasks' = Append(tasks, NewTask("SPOT_TRADES", "_request", 2, FALSE))
            /\ UNCHANGED <<data, result, pc>>
       ELSE /\ data' = Flatten([j \in 1..Len(Gathered) |-> Iter(Gathered[j])])
            /\ result' = Return(ListBody(data'))
            /\ pc' = "done"
            /\ UNCHANGED tasks
    /\ UNCHANGED <<kind, enforceLimit, maxRange, baseStep, cursor, awaited, resp,
                   heap, granted, gatherVars, envVars>>

\* resp = await gather of the tasks; data = [x for l in resp for x in l]
SplitGather ==
    /\ pc = "gather" /\ kind = "split"
    /\ \A t \in FanOut : tasks[t].pc = "done"
    /\ data' = Flatten([j \in 1..Len(Gathered) |-> Iter(Gathered[j])])
    /\ result' = Return(ListBody(data'))
    /\ pc' = "done"
    /\ UNCHANGED <<kind, enforceLimit, maxRange, baseStep, cursor, awaited, resp,
                   heap, tasks, granted, gatherVars, envVars>>

\* a gather that swallows the failure and hands back what the finished children returned
GatherReturnsPartial ==
    /\ pc = "gather"
    /\ failedFirst # 0
    /\ result' = Return(ListBody(Flatten(
                     [j \in 1..Len(Gathered) |->
                        IF Gathered[j].kind = "list" THEN Gathered[j].items ELSE << >>])))
    /\ pc' = "done"
    /\ UNCHANGED <<kind, enforceLimit, maxRange, baseStep, cursor, awaited, resp, data,
                   heap, tasks, granted, gatherVars, envVars>>

\* a gather that cancels the children still pending when it re-raises
GatherRaiseCancels ==
    /\ pc = "gather"
    /\ failedFirst # 0
    /\ result' = Raise(tasks[failedFirst].exc)
    /\ tasks' = [t \in 1..Len(tasks) |->
                   IF tasks[t].pc \in {"done", "failed"} THEN tasks[t]
                   ELSE [tasks[t] EXCEPT !.pc = "cancelled"]]
    /\ pc' = "done"
    /\ UNCHANGED <<kind, enforceLimit, maxRange, baseStep, cursor, awaited, resp, data,
                   heap, granted, gatherVars, envVars>>

\* gather re-raises the first exception a child raised; the siblings keep running
GatherRaise ==
    /\ pc = "gather"
    /\ failedFirst # 0
    /\ result' = Raise(tasks[failedFirst].exc)
    /\ pc' = "done"
    /\ UNCHANGED <<kind, enforceLimit, maxRange, baseStep, cursor, awaited, resp, data,
                   heap, tasks, granted, gatherVars, envVars>>

---------------------------------------------------------------------------
(* BinanceAsync._tradesCycle *)

AwaitedDone == awaited # 0 /\ tasks[awaited].pc \in {"done", "failed"}

\* `await self._request(endPoint=ENDPOINT, params=payload)`: the call runs inline
\* and reads the dict heap[p]
Call(ep, p) ==
    /\ tasks' = Append(tasks, NewTask(ep, "_request", p, TRUE))
    /\ awaited' = Len(tasks) + 1
    /\ pc' = "await"

\* payload = params.copy(); limit = params["limit"]; data = []; the first request
TradesStart ==
    /\ pc = "start" /\ kind = "trades"
    /\ heap' = Append(heap, heap[1])
    /\ Call("SPOT_TRADES", 2)
    /\ UNCHANGED <<kind, enforceLimit, maxRange, baseStep, cursor, resp, data, result,
                   granted, gatherVars, envVars>>

\* the loop body with the page test off by one: a full page ends the cycle too
TradesLoopBodyStopsOnFull(r) ==
    LET limit == Get(heap[1], "limit").i
        extended == data \o Iter(r)
    IN /\ data' = extended
       /\ IF Len_(r) <= limit
          THEN \* break; return data
               /\ result' = Return(ListBody(extended))
               /\ pc' = "done"
               /\ UNCHANGED <<heap, tasks, awaited>>
          ELSE IF r.kind # "list"
          THEN \* resp[-1] on a dict
               /\ result' = Raise("KeyError")
               /\ pc' = "done"
               /\ UNCHANGED <<heap, tasks, awaited>>
          ELSE \* payload["fromId"] = resp[-1]["id"] + 1; payload.pop("startTime", None)
               /\ heap' = [heap EXCEPT ![2] =
                             Pop(Put(@, "fromId", IntV(r.items[Len(r.items)] + 1)), "startTime")]
               /\ Call("SPOT_TRADES", 2)
               /\ UNCHANGED result

\* the loop body of a cycle whose payload is the caller's dict itself (no copy)
TradesLoopBodyInPlace(r) ==
    LET limit == Get(heap[1], "limit").i
        extended == data \o Iter(r)
    IN /\ data' = extended
       /\ IF Len_(r) < limit
          THEN /\ result' = Return(ListBody(extended))
               /\ pc' = "done"
               /\ UNCHANGED <<heap, tasks, awaited>>
          ELSE IF r.kind # "list"
          THEN /\ result' = Raise("KeyError")
               /\ pc' = "done"
               /\ UNCHANGED <<heap, tasks, awaited>>
          ELSE /\ heap' = [heap EXCEPT
                             ![1] = Pop(Put(@, "fromId", IntV(r.items[Len(r.items)] + 1)), "startTime"),
                             ![2] = Pop(Put(@, "fromId", IntV(r.items[Len(r.items)] + 1)), "startTime")]
               /\ Call("SPOT_TRADES", 2)
               /\ UNCHANGED result

\* the loop body of a cycle that leaves startTime in the payload next to fromId
TradesLoopBodyKeepsStart(r) ==
    LET limit == Get(heap[1], "limit").i
        extended == data \o Iter(r)
    IN /\ data' = extended
       /\ IF Len_(r) < limit
          THEN /\ result' = Return(ListBody(extended))
               /\ pc' = "done"
               /\ UNCHANGED <<heap, tasks, awaited>>
          ELSE IF r.kind # "list"
          THEN /\ result' = Raise("KeyError")
               /\ pc' = "done"
               /\ UNCHANGED <<heap, tasks, awaited>>
          ELSE /\ heap' = [heap EXCEPT ![2] = Put(@, "fromId", IntV(r.items[Len(r.items)] + 1))]
               /\ Call("SPOT_TRADES", 2)
               /\ UNCHANGED result

\* one pass through the body of `while not enforceLimit:` with the response r
TradesLoopBody(r) ==
    LET limit == Get(heap[1], "limit").i
        extended == data \o Iter(r)
    IN /\ data' = extended
       /\ IF Len_(r) < limit
          THEN \* break; return data
               /\ result' = Return(ListBody(extended))
               /\ pc' = "done"
               /\ UNCHANGED <<heap, tasks, awaited>>
          ELSE IF r.kind # "list"
          THEN \* resp[-1] on a dict
               /\ result' = Raise("KeyError")
               /\ pc' = "done"
               /\ UNCHANGED <<heap, tasks, awaited>>
          ELSE \* payload["fromId"] = resp[-1]["id"] + 1; payload.pop("startTime", None)
               /\ heap' = [heap EXCEPT ![2] =
                             Pop(Put(@, "fromId", IntV(r.items[Len(r.items)] + 1)), "startTime")]
               /\ Call("SPOT_TRADES", 2)
               /\ UNCHANGED result

\* the code after `resp = await self._request(...)`, first request
TradesAfterFirst(r) ==
    IF Truthy(Get(heap[2], "endTime"))
    THEN \* return resp
         /\ result' = Return(r)
         /\ pc' = "done"
         /\ UNCHANGED <<heap, tasks, awaited, data>>
    ELSE IF enforceLimit
    THEN \* the while loop is not entered; return data
         /\ result' = Return(ListBody(data))
         /\ pc' = "done"
         /\ UNCHANGED <<heap, tasks, awaited, data>>
    ELSE TradesLoopBody(r)

\* a cycle that swallows a failed request and hands back the pages fetched so far
TradesResumeSwallows ==
    /\ pc = "await" /\ kind = "trades"
    /\ AwaitedDone
    /\ IF tasks[awaited].pc = "failed"
       THEN /\ result' = Return(ListBody(data))
            /\ pc' = "done"
            /\ UNCHANGED <<heap, tasks, awaited, data, resp>>
       ELSE /\ resp' = tasks[awaited].ret
            /\ IF awaited = 1
               THEN TradesAfterFirst(tasks[awaited].ret)
               ELSE TradesLoopBody(tasks[awaited].ret)
    /\ UNCHANGED <<kind, enforceLimit, maxRange, baseStep, cursor,
                   granted, gatherVars, envVars>>

\* the awaited request has finished and _tradesCycle goes on
TradesResume ==
    /\ pc = "await" /\ kind = "trades"
    /\ AwaitedDone
    /\ IF tasks[awaited].pc = "failed"
       THEN /\ result' = Raise(tasks[awaited].exc)
            /\ pc' = "done"
            /\ UNCHANGED <<heap, tasks, awaited, data, resp>>
       ELSE /\ resp' = tasks[awaited].ret
            /\ IF awaited = 1
               THEN TradesAfterFirst(tasks[awaited].ret)
               ELSE TradesLoopBody(tasks[awaited].ret)
    /\ UNCHANGED <<kind, enforceLimit, maxRange, baseStep, cursor,
                   granted, gatherVars, envVars>>

---------------------------------------------------------------------------
(* BinanceAsync.spotTrades *)

TradeParams(s, e, f, l) ==
    << [k |-> "symbol", v |-> IntV(1)], [k |-> "orderId", v |-> NoneV],
       [k |-> "startTime", v |-> s], [k |-> "endTime", v |-> e],
       [k |-> "fromId", v |-> f], [k |-> "limit", v |-> IntV(l)] >>

\* AsyncExchange._timestamp: an int is passed through (the arguments are ints)
_timestamp(date) == date

\* the longest span of startTime..endTime the exchange accepts: 24 h in ms
INTERVAL == 86400000

\* spotTrades up to its `if START_MS and END_MS:`: the params dict is built and the
\* call goes on in _split_request_interval or in _tradesCycle, whose result or
\* exception is spotTrades' own
spotTrades ==
    /\ pc = "start" /\ kind = "spotTrades"
    /\ LET START_MS == IF Truthy(args.since) THEN _timestamp(args.since) ELSE NoneV
           END_MS == IF Truthy(args.until) THEN _timestamp(args.until) ELSE NoneV
       IN /\ heap' = << TradeParams(START_MS, END_MS, args.fromId, args.limit) >>
          /\ IF Truthy(START_MS) /\ Truthy(END_MS)
             THEN kind' = "split" /\ maxRange' = INTERVAL
             ELSE kind' = "trades" /\ maxRange' = 0
    /\ UNCHANGED <<enforceLimit, baseStep, pc, cursor, awaited, resp, data, result,
                   tasks, granted, gatherVars, envVars>>

---------------------------------------------------------------------------
(* BinanceAsync._paginatedRequests *)

\* a paginator that creates the task for page 2 together with the first request
PagedStartEager ==
    /\ pc = "start" /\ kind = "paged"
    /\ heap' = Append(heap, Put(heap[1], "page", IntV(1)))
    /\ tasks' = << NewTask("FIAT_ORDERS", "_request", 2, TRUE),
                   NewTask("FIAT_ORDERS", "_request", 2, FALSE) >>
    /\ awaited' = 1
    /\ pc' = "await"
    /\ UNCHANGED <<kind, enforceLimit, maxRange, baseStep, cursor, resp, data, result,
                   granted, gatherVars, envVars>>

\* payload = params.copy(); itemsPerRequest = payload[rowsKey]; payload[pageKey] = 1
\* and the first request
PagedStart ==
    /\ pc = "start" /\ kind = "paged"
    /\ heap' = Append(heap, Put(heap[1], "page", IntV(1)))
    /\ Call("FIAT_ORDERS", 2)
    /\ UNCHANGED <<kind, enforceLimit, maxRange, baseStep, cursor, resp, data, result,
                   granted, gatherVars, envVars>>

\* data.extend(resp[dataKey]); the range of the for loop starts at itemsPerRequest
PagedResume ==
    /\ pc = "await" /\ kind = "paged"
    /\ AwaitedDone
    /\ IF tasks[awaited].pc = "failed"
       THEN /\ result' = Raise(tasks[awaited].exc)
            /\ pc' = "done"
            /\ UNCHANGED <<data, resp, cursor>>
       ELSE IF tasks[awaited].ret.kind # "page"
       THEN \* resp[dataKey] on an error object
            /\ result' = Raise("KeyError")
            /\ pc' = "done"
            /\ resp' = tasks[awaited].ret
            /\ UNCHANGED <<data, cursor>>
       ELSE /\ resp' = tasks[awaited].ret
            /\ data' = data \o tasks[awaited].ret.data
            /\ cursor' = Get(heap[2], "rows").i
            /\ pc' = "loop"
            /\ UNCHANGED result
    /\ UNCHANGED <<kind, enforceLimit, maxRange, baseStep, awaited,
                   heap, tasks, granted, gatherVars, envVars>>

\* the loop with a range that runs one step too far
PagedLoopInclusive ==
    /\ pc = "loop" /\ kind = "paged"
    /\ IF cursor <= resp.total + 1
       THEN /\ heap' = [heap EXCEPT ![2] = Put(@, "page", IntV(Get(@, "page").i + 1))]
            /\ tasks' = Append(tasks, NewTask("FIAT_ORDERS", "_request", 2, FALSE))
            /\ cursor' = cursor + Get(heap[2], "rows").i
            /\ pc' = pc
       ELSE /\ pc' = "gather"
            /\ UNCHANGED <<heap, tasks, cursor>>
    /\ UNCHANGED <<kind, enforceLimit, maxRange, baseStep, awaited, resp, data, result,
                   granted, gatherVars, envVars>>

\* one iteration of `for _ in range(itemsPerRequest, resp[totalKey] + 1, itemsPerRequest)`
PagedLoop ==
    /\ pc = "loop" /\ kind = "paged"
    /\ IF cursor < resp.total + 1
       THEN /\ heap' = [heap EXCEPT ![2] = Put(@, "page", IntV(Get(@, "page").i + 1))]
            /\ tasks' = Append(tasks, NewTask("FIAT_ORDERS", "_request", 2, FALSE))
            /\ cursor' = cursor + Get(heap[2], "rows").i
            /\ pc' = pc
       ELSE /\ pc' = "gather"
            /\ UNCHANGED <<heap, tasks, cursor>>
    /\ UNCHANGED <<kind, enforceLimit, maxRange, baseStep, awaited, resp, data, result,
                   granted, gatherVars, envVars>>

\* resp = await gather; data.extend([x for r in resp for x in r[dataKey]])
PagedGather ==
    /\ pc = "gather" /\ kind = "paged"
    /\ \A t \in FanOut : tasks[t].pc = "done"
    /\ IF \E j \in 1..Len(Gathered) : Gathered[j].kind # "page"
       THEN /\ result' = Raise("KeyError")
            /\ UNCHANGED data
       ELSE /\ data' = data \o Flatten([j \in 1..Len(Gathered) |-> Gathered[j].data])
            /\ result' = Return(ListBody(data'))
    /\ pc' = "done"
    /\ UNCHANGED <<kind, enforceLimit, maxRange, baseStep, cursor, awaited, resp,
                   heap, tasks, granted, gatherVars, envVars>>

---------------------------------------------------------------------------
(* BinanceAsync.klines *)

KlineParams(start, end, limit) ==
    << [k |-> "symbol", v |-> IntV(1)], [k |-> "interval", v |-> IntV(baseStep)],
       [k |-> "startTime", v |-> IntV(start)], [k |-> "endTime", v |-> IntV(end)],
       [k |-> "timeZone", v |-> IntV(0)], [k |-> "limit", v |-> IntV(limit)] >>

\* START_MS, END_MS = self._parseTime(since, until); STEP = BASE_STEP * limit
KlinesStart ==
    /\ pc = "start" /\ kind = "klines"
    /\ cursor' = Get(heap[1], "since").i
    /\ pc' = "loop"
    /\ UNCHANGED <<kind, enforceLimit, maxRange, baseStep, awaited, resp, data, result,
                   heap, tasks, granted, gatherVars, envVars>>

\* the loop stepping by STEP only: a slice starts where the one before it ended
KlinesLoopOverlapping ==
    /\ pc = "loop" /\ kind = "klines"
    /\ LET END_MS == Get(heap[1], "until").i
           STEP == maxRange
       IN IF cursor < END_MS + baseStep
          THEN /\ heap' = Append(heap, KlineParams(cursor, Min(END_MS, cursor + STEP),
                                                   Get(heap[1], "limit").i))
               /\ tasks' = Append(tasks, NewTask("KLINES", "_baseKlines", Len(heap) + 1, FALSE))
               /\ cursor' = cursor + STEP
               /\ pc' = pc
          ELSE /\ pc' = "gather"
               /\ UNCHANGED <<heap, tasks, cursor>>
    /\ UNCHANGED <<kind, enforceLimit, maxRange, baseStep, awaited, resp, data, result,
                   granted, gatherVars, envVars>>

\* one iteration of `for start in range(START_MS, END_MS + BASE_STEP, STEP + BASE_STEP)`:
\* every task gets a dict of its own
KlinesLoop ==
    /\ pc = "loop" /\ kind = "klines"
    /\ LET END_MS == Get(heap[1], "until").i
           STEP == maxRange
       IN IF cursor < END_MS + baseStep
          THEN /\ heap' = Append(heap, KlineParams(cursor, Min(END_MS, cursor + STEP),
                                                   Get(heap[1], "limit").i))
               /\ tasks' = Append(tasks, NewTask("KLINES", "_baseKlines", Len(heap) + 1, FALSE))
               /\ cursor' = cursor + STEP + baseStep
               /\ pc' = pc
          ELSE /\ pc' = "gather"
               /\ UNCHANGED <<heap, tasks, cursor>>
    /\ UNCHANGED <<kind, enforceLimit, maxRange, baseStep, awaited, resp, data, result,
                   granted, gatherVars, envVars>>

\* klines = await gather; return klines
KlinesGather ==
    /\ pc = "gather" /\ kind = "klines"
    /\ \A t \in FanOut : tasks[t].pc = "done"
    /\ result' = Return(ListBody([j \in 1..Len(Gathered) |-> Gathered[j].items]))
    /\ pc' = "done"
    /\ UNCHANGED <<kind, enforceLimit, maxRange, baseStep, cursor, awaited, resp, data,
                   heap, tasks, granted, gatherVars, envVars>>

---------------------------------------------------------------------------
(* Initial states *)

InitCommon ==
    /\ pc = "start" /\ cursor = 0 /\ tasks = << >> /\ awaited = 0
    /\ resp = NoBody /\ data = << >> /\ result = Running
    /\ granted = [l \in LimiterNames |-> 0]
    /\ failedFirst = 0 /\ reordered = FALSE /\ orphaned = FALSE /\ now = 0
    /\ serverTrades = NoneV /\ PUBLIC_IP = NoneV
    /\ args = NoArgs

InitSplit ==
    /\ kind = "split" /\ enforceLimit = FALSE /\ baseStep = 0 /\ serverTotal = 0
    /\ maxRange \in 1..MaxSpan
    /\ \E s \in 0..MaxTime : \E e \in s..MaxTime :
         heap = << TradeParams(IntV(s), IntV(e), NoneV, MaxLimit) >>
    /\ InitCommon

\* _tradesCycle as spotTrades calls it: startTime and endTime are never both truthy
InitTrades ==
    /\ kind = "trades" /\ baseStep = 0 /\ serverTotal = 0 /\ maxRange = 0
    /\ enforceLimit \in BOOLEAN
    /\ \E s \in {NoneV, IntV(1)}, e \in {NoneV, IntV(0), IntV(MaxTime)},
          f \in {NoneV, IntV(3)}, l \in 1..MaxLimit :
         /\ ~(Truthy(s) /\ Truthy(e))
         /\ heap = << TradeParams(s, e, f, l) >>
    /\ InitCommon

InitPaged ==
    /\ kind = "paged" /\ enforceLimit = FALSE /\ baseStep = 0 /\ maxRange = 0
    /\ serverTotal \in 0..MaxTotal
    /\ \E r \in 1..MaxRows :
         heap = << << [k |-> "transactionType", v |-> IntV(0)],
                      [k |-> "beginTime", v |-> IntV(0)],
                      [k |-> "endTime", v |-> IntV(MaxTime)],
                      [k |-> "rows", v |-> IntV(r)] >> >>
    /\ InitCommon

\* klines(since, until, limit) with candles of BASE_STEP ms
InitKlines ==
    /\ kind = "klines" /\ enforceLimit = FALSE /\ serverTotal = 0
    /\ baseStep \in 1..MaxStep
    /\ \E s \in 0..MaxTime, u \in 1..MaxTime, l \in 1..MaxLimit :
         /\ s <= u
         /\ maxRange = baseStep * l
         /\ heap = << << [k |-> "since", v |-> IntV(s)], [k |-> "until", v |-> IntV(u)],
                        [k |-> "limit", v |-> IntV(l)] >> >>
    /\ InitCommon

Init == InitSplit \/ InitTrades \/ InitPaged \/ InitKlines

Next ==
    \/ SplitStart \/ SplitLoop \/ SplitGather
    \/ TradesStart \/ TradesResume
    \/ PagedStart \/ PagedResume \/ PagedLoop \/ PagedGather
    \/ KlinesStart \/ KlinesLoop \/ KlinesGather
    \/ GatherRaise
    \/ ServerRecord
    \/ \E t \in 1..Len(tasks) : RequestEnter(t)
    \/ \E t \in 1..Len(tasks) : RequestSend(t)
    \/ \E t \in 1..Len(tasks) : RequestReceive(t)
    \/ \E t \in 1..Len(tasks) : RequestFail(t)

Spec == Init /\ [][Next]_vars

\* an application coroutine calls self._request(endPoint) with params left None,
\* next to the calls already running on the loop; the session makes one call per
\* endpoint
SessionRequest ==
    /\ kind = "session"
    /\ Len(tasks) < MaxSession
    /\ \E ep \in EndpointNames :
         /\ \A t \in 1..Len(tasks) : tasks[t].ep # ep
         /\ tasks' = Append(tasks, NewTask(ep, "_request", 1, TRUE))
    /\ UNCHANGED <<parentVars, heap, granted, gatherVars, envVars>>

\* params is None: _preparePayload starts from an empty dict
InitSession ==
    /\ kind = "session" /\ enforceLimit = FALSE /\ baseStep = 0 /\ maxRange = 0
    /\ serverTotal = 0
    /\ heap = << << >> >>
    /\ pc = "await" /\ cursor = 0 /\ tasks = << >> /\ awaited = 0
    /\ resp = NoBody /\ data = << >> /\ result = Running
    /\ granted = [l \in LimiterNames |-> 0]
    /\ failedFirst = 0 /\ reordered = FALSE /\ orphaned = FALSE /\ now = 0
    /\ serverTrades = NoneV /\ PUBLIC_IP = NoneV
    /\ args = NoArgs

SessionNext ==
    \/ SessionRequest
    \/ \E t \in 1..Len(tasks) : RequestEnter(t)
    \/ \E t \in 1..Len(tasks) : RequestSend(t)
    \/ \E t \in 1..Len(tasks) : RequestReceive(t)
    \/ \E t \in 1..Len(tasks) : RequestFail(t)

SessionSpec == InitSession /\ [][SessionNext]_vars

\* several BinanceAsync instances in one process: each makes one _request call
ClientRequest ==
    /\ kind = "clients"
    /\ \E c \in 1..MaxClients, ep \in EndpointNames :
         /\ \A t \in 1..Len(tasks) : tasks[t].self # c
         /\ tasks' = Append(tasks, [NewTask(ep, "_request", 1, TRUE) EXCEPT !.self = c])
    /\ UNCHANGED <<parentVars, heap, granted, gatherVars, envVars>>

InitClients ==
    /\ kind = "clients" /\ enforceLimit = FALSE /\ baseStep = 0 /\ maxRange = 0
    /\ serverTotal = 0
    /\ heap = << << >> >>
    /\ pc = "await" /\ cursor = 0 /\ tasks = << >> /\ awaited = 0
    /\ resp = NoBody /\ data = << >> /\ result = Running
    /\ granted = [l \in LimiterNames |-> 0]
    /\ failedFirst = 0 /\ reordered = FALSE /\ orphaned = FALSE /\ now = 0
    /\ serverTrades = NoneV /\ PUBLIC_IP = NoneV
    /\ args = NoArgs

ClientsNext ==
    \/ ClientRequest
    \/ \E t \in 1..Len(tasks) : RequestEnter(t)
    \/ \E t \in 1..Len(tasks) : RequestSend(t)
    \/ \E t \in 1..Len(tasks) : RequestReceive(t)
    \/ \E t \in 1..Len(tasks) : RequestFail(t)

ClientsSpec == InitClients /\ [][ClientsNext]_vars

\* spotTrades(since, until, fromId, limit, enforceLimit) with times on a half-day grid
HalfDay == INTERVAL \div 2
InitSpotTrades ==
    /\ kind = "spotTrades" /\ baseStep = 0 /\ serverTotal = 0 /\ maxRange = 0
    /\ enforceLimit \in BOOLEAN
    /\ heap = << >>
    /\ \E s, u \in {NoneV} \cup {IntV(k * HalfDay) : k \in 0..(MaxTime + 1)},
          f \in {NoneV, IntV(3)}, l \in 1..MaxLimit :
         args = [method |-> "spotTrades", since |-> s, until |-> u,
                 fromId |-> f, limit |-> l]
    /\ pc = "start" /\ cursor = 0 /\ tasks = << >> /\ awaited = 0
    /\ resp = NoBody /\ data = << >> /\ result = Running
    /\ granted = [l \in LimiterNames |-> 0]
    /\ failedFirst = 0 /\ reordered = FALSE /\ orphaned = FALSE /\ now = 0
    /\ serverTrades = NoneV /\ PUBLIC_IP = NoneV

DispatchNext ==
    \/ spotTrades
    \/ SplitStart \/ SplitLoop \/ SplitGather \/ GatherRaise
    \/ TradesStart \/ TradesResume
    \/ \E t \in 1..Len(tasks) : RequestEnter(t)
    \/ \E t \in 1..Len(tasks) : RequestSend(t)
    \/ \E t \in 1..Len(tasks) : RequestReceive(t)
    \/ \E t \in 1..Len(tasks) : RequestFail(t)

DispatchSpec == InitSpotTrades /\ [][DispatchNext]_vars

---------------------------------------------------------------------------
(* The helpers called on their own: _preparePayload, _checkHTTPErrors and the
   construction of a BaseEndpoint.  `args` holds the arguments of the call,
   heap[1] the params dict passed by reference, `data` what the calls gave back. *)

MsgV(m) == [t |-> "msg", m |-> m]

\* a mapping that files 503 under the message of 500
_checkHTTPErrorsMerged(code) ==
    IF code # 200
    THEN CASE code = 400 -> MsgV("Bad request. Need to send the request with GET / POST (must be capitalized)")
           [] code = 401 -> MsgV("Unauthorized. 1. Invalid API Key; 2. Need to put authentication params in the request header")
           [] code = 403 -> MsgV("Forbidden request. Possible causes: 1. IP rate limit breached; 2. You send GET request with an empty json body")
           [] code = 404 -> MsgV("Cannot find path. Possible causes: 1. Wrong path")
           [] code = 405 -> MsgV("Method Not Allowed. You tried to access the resource with an invalid method")
           [] code \in {500, 503} -> MsgV("Internal Server Error. Try again later")
           [] OTHER -> MsgV("Unknown error.")
    ELSE NoneV

\* AsyncExchange._checkHTTPErrors: the message for a status code, None for 200
_checkHTTPErrors(code) ==
    IF code # 200
    THEN CASE code = 400 -> MsgV("Bad request. Need to send the request with GET / POST (must be capitalized)")
           [] code = 401 -> MsgV("Unauthorized. 1. Invalid API Key; 2. Need to put authentication params in the request header")
           [] code = 403 -> MsgV("Forbidden request. Possible causes: 1. IP rate limit breached; 2. You send GET request with an empty json body")
           [] code = 404 -> MsgV("Cannot find path. Possible causes: 1. Wrong path")
           [] code = 405 -> MsgV("Method Not Allowed. You tried to access the resource with an invalid method")
           [] code = 500 -> MsgV("Internal Server Error. Try again later")
           [] code = 503 -> MsgV("Service Unavailable. Possible causes: 1. Maintenance. Try again later")
           [] OTHER -> MsgV("Unknown error.")
    ELSE NoneV

\* a constructor that gives a UID-limited endpoint the per-IP limit
BaseEndpointIpForUid(URL, LIMIT_TYPE) ==
    IF URL[1] \notin {"api", "sapi"}
    THEN [exc |-> "ValueError"]
    ELSE IF URL[1] = "sapi"
    THEN CASE LIMIT_TYPE \in {"UID", "IP"} ->
                [exc |-> "none", _limiter |-> [max_rate |-> sapi_IP_LIMIT, time_period |-> 60]]
           [] LIMIT_TYPE = "IP_SEC" ->
                [exc |-> "none", _limiter |-> [max_rate |-> sapi_IP_LIMIT_SEC, time_period |-> 1]]
           [] OTHER -> [exc |-> "none"]
    ELSE [exc |-> "none", _limiter |-> [max_rate |-> api_LIMIT, time_period |-> 60]]

\* BaseEndpoint.__init__(URL, ..., LIMIT_TYPE): ApiType(...) raises ValueError for a
\* prefix that is no member; the slot _limiter is assigned in the branch that
\* matches, and stays unset when none does
BaseEndpoint(URL, LIMIT_TYPE) ==
    IF URL[1] \notin {"api", "sapi"}
    THEN [exc |-> "ValueError"]
    ELSE IF URL[1] = "sapi"
    THEN CASE LIMIT_TYPE = "UID" ->
                [exc |-> "none", _limiter |-> [max_rate |-> sapi_UID_LIMIT, time_period |-> 60]]
           [] LIMIT_TYPE = "IP" ->
                [exc |-> "none", _limiter |-> [max_rate |-> sapi_IP_LIMIT, time_period |-> 60]]
           [] LIMIT_TYPE = "IP_SEC" ->
                [exc |-> "none", _limiter |-> [max_rate |-> sapi_IP_LIMIT_SEC, time_period |-> 1]]
           [] OTHER -> [exc |-> "none"]
    ELSE [exc |-> "none", _limiter |-> [max_rate |-> api_LIMIT, time_period |-> 60]]

\* a _preparePayload that writes its result into the dict it was given
CallPreparePayloadInPlace ==
    /\ kind = "_preparePayload"
    /\ Len(data) < 2
    /\ data' = Append(data, _preparePayload(heap[1], args.security, now))
    /\ heap' = [heap EXCEPT ![1] = _preparePayload(heap[1], args.security, now)]
    /\ UNCHANGED <<kind, enforceLimit, maxRange, baseStep, pc, cursor, awaited, resp, result,
                   tasks, granted, gatherVars, envVars>>

\* payload = self._preparePayload(params=params, security=...): the dict comes back
\* as a new object, params is only read
CallPreparePayload ==
    /\ kind = "_preparePayload"
    /\ Len(data) < 2
    /\ data' = Append(data, _preparePayload(heap[1], args.security, now))
    /\ UNCHANGED <<kind, enforceLimit, maxRange, baseStep, pc, cursor, awaited, resp, result,
                   heap, tasks, granted, gatherVars, envVars>>

CallCheckHTTPErrors ==
    /\ kind = "_checkHTTPErrors"
    /\ data = << >>
    /\ data' = << _checkHTTPErrors(args.code) >>
    /\ UNCHANGED <<kind, enforceLimit, maxRange, baseStep, pc, cursor, awaited, resp, result,
                   heap, tasks, granted, gatherVars, envVars>>

\* a catalog entry is evaluated: BaseEndpoint(URL=..., LIMIT_TYPE=...)
Construct ==
    /\ kind = "BaseEndpoint"
    /\ data = << >>
    /\ data' = << BaseEndpoint(args.URL, args.LIMIT_TYPE) >>
    /\ UNCHANGED <<kind, enforceLimit, maxRange, baseStep, pc, cursor, awaited, resp, result,
                   heap, tasks, granted, gatherVars, envVars>>

\* BaseEndpoint.acquire on the constructed endpoint: self._limiter of an unset slot
\* raises AttributeError
EndpointAcquire ==
    /\ kind = "BaseEndpoint"
    /\ Len(data) = 1 /\ data[1].exc = "none"
    /\ data' = Append(data, IF "_limiter" \in DOMAIN data[1]
                            THEN [exc |-> "none", amount |-> args.WEIGHT]
                            ELSE [exc |-> "AttributeError"])
    /\ UNCHANGED <<kind, enforceLimit, maxRange, baseStep, pc, cursor, awaited, resp, result,
                   heap, tasks, granted, gatherVars, envVars>>

\* the values a parameter takes in the public methods: None, ints, bools, strs and
\* lists of strs or ints, the empty ones included
ParamValues ==
    { NoneV, IntV(0), IntV(7), BoolV(TRUE), BoolV(FALSE),
      TextV(<< >>), TextV(<<"B", "T", "C">>),
      ListV(<< >>), ListV(<< IntV(1), IntV(12) >>),
      ListV(<< TextV(<<"B", "T", "C">>), TextV(<<"E", "T", "H">>) >>) }
ParamKeys == {"symbol", "symbols", "needBtcValuation"}
Securities == {"NONE", "TRADE", "USER_DATA", "USER_STREAM"}

\* dicts of 1..MaxKeys distinct keys
ParamDicts ==
    UNION { { d \in [1..n -> [k : ParamKeys, v : ParamValues]] :
                \A i, j \in 1..n : i < j => d[i].k # d[j].k } : n \in 1..MaxKeys }

InitIdle ==
    /\ enforceLimit = FALSE /\ baseStep = 0 /\ maxRange = 0 /\ serverTotal = 0
    /\ pc = "done" /\ cursor = 0 /\ tasks = << >> /\ awaited = 0
    /\ resp = NoBody /\ data = << >> /\ result = Running
    /\ granted = [l \in LimiterNames |-> 0]
    /\ failedFirst = 0 /\ reordered = FALSE /\ orphaned = FALSE /\ now = 0
    /\ serverTrades = NoneV /\ PUBLIC_IP = NoneV

InitPrepare ==
    /\ kind = "_preparePayload"
    /\ \E p \in ParamDicts, sec \in Securities :
         /\ args = [method |-> "_preparePayload", params |-> p, security |-> sec]
         /\ heap = << p >>
    /\ InitIdle

InitCheck ==
    /\ kind = "_checkHTTPErrors"
    /\ \E code \in 100..MaxCode : args = [method |-> "_checkHTTPErrors", code |-> code]
    /\ heap = << >>
    /\ InitIdle

InitEndpoint ==
    /\ kind = "BaseEndpoint"
    /\ \E prefix \in {"api", "sapi", "fapi"}, lt \in {"IP", "UID", "IP_SEC", "None"},
          w \in {1, 20} :
         args = [method |-> "BaseEndpoint", URL |-> <<prefix, "v1/x">>,
                 LIMIT_TYPE |-> lt, WEIGHT |-> w]
    /\ heap = << >>
    /\ InitIdle

\* the class body of Endpoints is evaluated: one BaseEndpoint(...) per member
InitCatalog ==
    /\ kind = "BaseEndpoint"
    /\ \E ep \in DOMAIN Endpoints :
         args = [method |-> "Endpoints", name |-> ep, URL |-> Endpoints[ep].URL,
                 LIMIT_TYPE |-> Endpoints[ep].LIMIT_TYPE, WEIGHT |-> Endpoints[ep].WEIGHT]
    /\ heap = << >>
    /\ InitIdle

HelperNext ==
    \/ CallPreparePayload
    \/ CallCheckHTTPErrors
    \/ Construct \/ EndpointAcquire
    \/ Tick

HelperSpec == (InitPrepare \/ InitCheck \/ InitEndpoint \/ InitCatalog) /\ [][HelperNext]_vars

\* _tradesCycle(params, enforceLimit=False) without endTime against a server that
\* holds a fixed, finite set of trades
InitCycle ==
    /\ kind = "trades" /\ baseStep = 0 /\ serverTotal = 0 /\ maxRange = 0
    /\ enforceLimit = FALSE
    /\ \E s \in {NoneV, IntV(1)}, f \in {NoneV, IntV(3)}, l \in 1..MaxLimit :
         heap = << TradeParams(s, NoneV, f, l) >>
    /\ \E ids \in SUBSET (1..MaxTrades) : serverTrades = [t |-> "set", ids |-> ids]
    /\ pc = "start" /\ cursor = 0 /\ tasks = << >> /\ awaited = 0
    /\ resp = NoBody /\ data = << >> /\ result = Running
    /\ granted = [l \in LimiterNames |-> 0]
    /\ failedFirst = 0 /\ reordered = FALSE /\ orphaned = FALSE /\ now = 0
    /\ args = NoArgs /\ PUBLIC_IP = NoneV

CycleNext ==
    \/ TradesStart \/ TradesResume
    \/ \E t \in 1..Len(tasks) : RequestEnter(t)
    \/ \E t \in 1..Len(tasks) : RequestSend(t)
    \/ \E t \in 1..Len(tasks) : RequestAnswered(t)

\* the event loop runs a coroutine that is ready, the limiter lets a waiting request
\* through and the server answers: a step that can be taken is taken
CycleSpec == InitCycle /\ [][CycleNext]_vars /\ WF_vars(CycleNext)

\* spotTrades' request cycle with the wall clock running
TimedNext ==
    \/ TradesStart \/ TradesResume
    \/ Tick
    \/ \E t \in 1..Len(tasks) : RequestEnter(t)
    \/ \E t \in 1..Len(tasks) : RequestSend(t)
    \/ \E t \in 1..Len(tasks) : RequestReceive(t)
    \/ \E t \in 1..Len(tasks) : RequestFail(t)

TimedSpec == InitTrades /\ [][TimedNext]_vars

---------------------------------------------------------------------------
(* AsyncExchange._getPublicIP, called by several coroutines of the process.  A call
   is an entry of `tasks`; PUBLIC_IP is the class attribute. *)

\* what https://api.ipify.org may answer: the address the host has at that moment
Addresses == {TextV(<<"1">>), TextV(<<"2">>)}

\* `if AsyncExchange.PUBLIC_IP:` -- None and the empty str are falsy
CacheSet == PUBLIC_IP.t = "text" /\ Len(PUBLIC_IP.c) > 0

\* a coroutine calls self._getPublicIP(): it runs up to its first suspension, which
\* is the return of the cached value or the GET it has sent to fetch the address
GetPublicIP ==
    /\ kind = "_getPublicIP"
    /\ Len(tasks) < MaxCallers
    /\ tasks' = Append(tasks,
                  IF CacheSet
                  THEN [fn |-> "_getPublicIP", pc |-> "done", fetched |-> FALSE, ret |-> PUBLIC_IP]
                  ELSE [fn |-> "_getPublicIP", pc |-> "fetching", fetched |-> TRUE, ret |-> NoneV])
    /\ UNCHANGED <<parentVars, heap, granted, gatherVars, envVars>>

\* the response arrives: AsyncExchange.PUBLIC_IP = await response.text(); return it
GetPublicIPResponse(t) ==
    /\ kind = "_getPublicIP"
    /\ t \in 1..Len(tasks)
    /\ tasks[t].pc = "fetching"
    /\ \E ip \in Addresses :
         /\ PUBLIC_IP' = ip
         /\ tasks' = [tasks EXCEPT ![t].pc = "done", ![t].ret = ip]
    /\ UNCHANGED <<parentVars, heap, granted, gatherVars, now, args, serverTotal, serverTrades>>

\* `except ClientError: return None`
GetPublicIPClientError(t) ==
    /\ kind = "_getPublicIP"
    /\ t \in 1..Len(tasks)
    /\ tasks[t].pc = "fetching"
    /\ tasks' = [tasks EXCEPT ![t].pc = "done"]
    /\ UNCHANGED <<parentVars, heap, granted, gatherVars, envVars>>

InitPublicIP ==
    /\ kind = "_getPublicIP"
    /\ args = [method |-> "_getPublicIP"]
    /\ heap = << >>
    /\ InitIdle

PublicIPNext ==
    \/ GetPublicIP
    \/ \E t \in 1..Len(tasks) : GetPublicIPResponse(t)
    \/ \E t \in 1..Len(tasks) : GetPublicIPClientError(t)

PublicIPSpec == InitPublicIP /\ [][PublicIPNext]_vars

---------------------------------------------------------------------------
(* Properties *)

Transmitted(t) == tasks[t].sent # << >>
Finished(t) == tasks[t].pc \in {"done", "failed"}
InFlight == {t \in 1..Len(tasks) : ~Finished(t)}
WindowStart == Get(heap[1], "startTime").i
WindowEnd == Get(heap[1], "endTime").i
Ceil(a, b) == (a + b - 1) \div b

RECURSIVE GrantedTo(_, _)
\* the weight the requests tasks[1..n] have acquired from limiter l
GrantedTo(l, n) ==
    IF n = 0 THEN 0
    ELSE GrantedTo(l, n - 1)
         + (IF Limiter(tasks[n].ep).name = l THEN Sum(tasks[n].acquired) ELSE 0)

\* C2: every request that was transmitted had completed exactly one acquire of its
\* endpoint's WEIGHT on its endpoint's limiter beforehand, a request that has not
\* entered the rate-limited block has acquired and transmitted nothing, and the
\* limiters have granted exactly one WEIGHT per sub-request of the operation.
C2_OneAcquirePerRequest ==
    /\ \A t \in 1..Len(tasks) :
         /\ tasks[t].pc = "created" => tasks[t].acquired = << >> /\ ~Transmitted(t)
         /\ tasks[t].pc # "created" => tasks[t].acquired = << Endpoints[tasks[t].ep].WEIGHT >>
    /\ \A l \in LimiterNames : granted[l] = GrantedTo(l, Len(tasks))
    /\ \A ep \in EndpointNames :
         (\A t \in 1..Len(tasks) : tasks[t].ep = ep) =>
            granted[Limiter(ep).name] =
               Endpoints[ep].WEIGHT * Cardinality({t \in 1..Len(tasks) : tasks[t].pc # "created"})

C2_Witness ==
    /\ kind = "split" /\ pc = "done" /\ Len(tasks) = 3
    /\ \A t \in 1..Len(tasks) : Transmitted(t) /\ Finished(t)
    /\ granted["_sharedLimiter"] = 60

\* C3: the i-th (0-based) sub-request of _split_request_interval is transmitted with
\* startTime = start + i*maxRange and endTime = min(end, start + (i+1)*maxRange).
C3_SliceTransmitted ==
    kind = "split" /\ WindowStart < WindowEnd =>
       \A t \in 1..Len(tasks) : Transmitted(t) =>
          /\ Get(tasks[t].sent, "startTime").i = WindowStart + (t - 1) * maxRange
          /\ Get(tasks[t].sent, "endTime").i = Min(WindowEnd, WindowStart + t * maxRange)

\* C4: the concurrent sub-requests of _paginatedRequests are transmitted with page
\* numbers of their own: the t-th request of the operation asks for page t, so that
\* every page from 2 on is requested exactly once.
C4_OwnPageNumber ==
    kind = "paged" =>
       \A t \in FanOut : Transmitted(t) => Get(tasks[t].sent, "page").i = t

\* C5: once every request of _paginatedRequests has been created, their number is
\* ceil(total / itemsPerPage), for every total >= 1 declared by page 1.
C5_CeilRequests ==
    kind = "paged" /\ pc \in {"gather", "done"} /\ resp.kind = "page" /\ resp.total >= 1 =>
       Len(tasks) = Ceil(resp.total, Get(heap[1], "rows").i)

\* C6: a window with start = end makes _split_request_interval issue exactly one
\* sub-request.
C6_OneSliceWhenEmpty ==
    kind = "split" /\ WindowStart = WindowEnd /\ pc \in {"gather", "done"} =>
       Len(tasks) = 1

\* C7: _tradesCycle without endTime and with enforceLimit False issues its requests
\* one after another; every request but the last was answered with a full page
\* (length = limit), and when it returns the last answer was a partial page and the
\* result is the concatenation of all answers in fetch order: k full pages and one
\* partial page make exactly k+1 requests.
C7_Precondition ==
    kind = "trades" /\ ~enforceLimit /\ ~Truthy(Get(heap[1], "endTime"))

C7_SequentialCursor ==
    C7_Precondition =>
       LET n == Len(tasks)
           limit == Get(heap[1], "limit").i
       IN /\ Cardinality(InFlight) <= 1
          /\ \A t \in 1..n : t < n => tasks[t].pc = "done" /\ Len_(tasks[t].ret) = limit
          /\ result.kind = "return" =>
               /\ n >= 1
               /\ tasks[n].pc = "done" /\ Len_(tasks[n].ret) < limit
               /\ result.value = ListBody(Flatten([t \in 1..n |-> Iter(tasks[t].ret)]))

C7_Witness ==
    /\ C7_Precondition
    /\ result.kind = "return"
    /\ Len(tasks) = 3
    /\ Get(heap[1], "limit").i = 2
    /\ Len(result.value.items) = 5

\* C8: when params carries an endTime, _tradesCycle issues exactly one request and
\* returns its response, whatever the response and whatever enforceLimit.
C8_BoundedSingleRequest ==
    kind = "trades" /\ Get(heap[1], "endTime").t = "int" =>
       /\ Len(tasks) <= 1
       /\ result.kind = "return" => Len(tasks) = 1 /\ result.value = tasks[1].ret

\* C9: with enforceLimit True and no endTime, _tradesCycle issues exactly one request
\* and returns the trades of that response.
C9_EnforceLimitReturnsResponse ==
    kind = "trades" /\ enforceLimit /\ Get(heap[1], "endTime").t = "none" =>
       /\ Len(tasks) <= 1
       /\ result.kind = "return" => Len(tasks) = 1 /\ result.value = tasks[1].ret

\* C10: a request answered with a status other than 200 fails with an HTTP status
\* error; _request never returns the decoded body of such a response.
C10_StatusErrorRaised ==
    \A t \in 1..Len(tasks) :
       Finished(t) /\ tasks[t].status \notin {0, 200} =>
          tasks[t].pc = "failed" /\ tasks[t].exc = "HTTPStatusError"

FailedChildren == {t \in FanOut : tasks[t].pc = "failed"}
IsFanOut == kind \in {"split", "paged", "klines"}

\* C11: in a fan-out the operation returns only when every child has returned; once
\* a child has failed and the parent has resumed, the operation has raised the error
\* of a failed child (the first one to fail) and carries no result; the parent resumes
\* only when every child has completed or some child has failed.
C11_FanOutFailure ==
    IsFanOut =>
       /\ result.kind = "return" =>
             FailedChildren = {} /\ \A t \in FanOut : tasks[t].pc = "done"
       /\ pc = "done" /\ FailedChildren # {} =>
             /\ result.kind = "raise" /\ result.value = << >>
             /\ failedFirst \in FailedChildren
             /\ result.exc = tasks[failedFirst].exc
       /\ pc = "done" /\ FanOut # {} =>
             (\A t \in FanOut : tasks[t].pc = "done") \/ FailedChildren # {}

C11_Witness ==
    /\ kind = "split" /\ pc = "done" /\ Len(tasks) = 3
    /\ tasks[2].pc = "failed" /\ result = Raise("TransportError")
    /\ tasks[1].pc = "done" /\ Len_(tasks[1].ret) = 1
    /\ tasks[3].pc = "sent"

\* C12: no task of a fan-out is ever cancelled; a sibling that begins to run after
\* the operation has failed still acquires its endpoint's weight before it sends, and
\* the failed operation keeps its error and no result whatever the siblings return.
C12_SiblingsNotCancelled ==
    IsFanOut =>
       /\ \A t \in 1..Len(tasks) : tasks[t].pc # "cancelled"
       /\ orphaned =>
             /\ result.kind = "raise" /\ result.value = << >>
             /\ result.exc = tasks[failedFirst].exc
             /\ \A t \in FanOut :
                   tasks[t].pc # "created" =>
                      tasks[t].acquired = << Endpoints[tasks[t].ep].WEIGHT >>

C12_Witness ==
    /\ kind = "split" /\ orphaned /\ Len(tasks) = 3
    /\ failedFirst = 1
    /\ \A t \in {2, 3} : tasks[t].pc = "done" /\ Transmitted(t) /\ Len_(tasks[t].ret) = 1
    /\ granted["_sharedLimiter"] = 60
    /\ result.kind = "raise"

\* C13: the list _split_request_interval returns is the concatenation of the
\* sub-requests' results in the order of their slices, in whatever order they
\* completed, and its length is the sum of the lengths of those results.
C13_SliceOrder ==
    kind = "split" /\ result.kind = "return" =>
       /\ result.value =
             ListBody(Flatten([t \in 1..Len(tasks) |-> Iter(tasks[t].ret)]))
       /\ Len(result.value.items) = Sum([t \in 1..Len(tasks) |-> Len_(tasks[t].ret)])

C13_Witness ==
    /\ kind = "split" /\ result.kind = "return" /\ reordered
    /\ Len(tasks) = 3
    /\ \A t \in 1..3 : tasks[t].ret.kind = "list"
    /\ result.value.items = << IdStride, 2 * IdStride, 3 * IdStride >>

\* C14: the list _paginatedRequests returns is the items of page 1 followed by the
\* items of the other responses in the order their requests were created, in
\* whatever order the responses arrived.
C14_PageOrder ==
    kind = "paged" /\ result.kind = "return" =>
       result.value =
          ListBody(tasks[1].ret.data
                   \o Flatten([j \in 1..(Len(tasks) - 1) |-> tasks[j + 1].ret.data]))

C14_Witness ==
    /\ kind = "paged" /\ result.kind = "return" /\ reordered
    /\ Len(tasks) = 3
    /\ tasks[2].ret.data # << >> /\ tasks[3].ret.data # << >>

IsSigned(t) == Endpoints[tasks[t].ep].SECURITY \in SIGNED

\* C16: a request that is still waiting for the limiter has built no payload; the
\* payload a request transmits was built after its acquire was granted: its
\* timestamp is not earlier than the grant, and the signature covers that timestamp.
C16_StampAfterGrant ==
    \A t \in 1..Len(tasks) :
       /\ tasks[t].pc = "created" => tasks[t].sent = << >>
       /\ Transmitted(t) =>
             /\ tasks[t].acquired # << >>
             /\ IsSigned(t) =>
                   /\ Has(tasks[t].sent, "timestamp") /\ Has(tasks[t].sent, "signature")
                   /\ Get(tasks[t].sent, "timestamp").s >= tasks[t].grantedAt
                   /\ Get(Get(tasks[t].sent, "signature").msg, "timestamp")
                         = Get(tasks[t].sent, "timestamp")

C16_Witness ==
    \E t \in 1..Len(tasks) :
       /\ IsSigned(t) /\ Transmitted(t)
       /\ tasks[t].createdAt < tasks[t].grantedAt
       /\ Get(tasks[t].sent, "timestamp").s = tasks[t].grantedAt

Entered(ep) == {t \in 1..Len(tasks) : tasks[t].ep = ep /\ tasks[t].pc # "created"}
ApiEndpoints == {ep \in EndpointNames : API_TYPE(ep) = "api"}
SapiEndpoints == {ep \in EndpointNames : API_TYPE(ep) = "sapi"}

RECURSIVE WeightOf(_)
\* the weights acquired by the requests to the endpoints in eps
WeightOf(eps) ==
    IF eps = {} THEN 0
    ELSE LET ep == CHOOSE e \in eps : TRUE
         IN Endpoints[ep].WEIGHT * Cardinality(Entered(ep)) + WeightOf(eps \ {ep})

\* C20: every /api endpoint draws from one and the same limiter, which has granted
\* the weights of the requests to all /api endpoints together; every /sapi endpoint
\* draws from a limiter no other endpoint uses, which has granted the weights of the
\* requests to that endpoint only.
C20_SharedAndOwnLimiters ==
    /\ \A a \in ApiEndpoints :
          /\ \A b \in ApiEndpoints : Limiter(a).name = Limiter(b).name
          /\ granted[Limiter(a).name] = WeightOf(ApiEndpoints)
    /\ \A a \in SapiEndpoints :
          /\ \A b \in EndpointNames \ {a} : Limiter(a).name # Limiter(b).name
          /\ granted[Limiter(a).name] = WeightOf({a})

C20_Witness ==
    /\ kind = "session" /\ Len(tasks) = 3
    /\ tasks[1].ep = "KLINES" /\ tasks[2].ep = "SPOT_TRADES" /\ tasks[3].ep = "FIAT_ORDERS"
    /\ \A t \in 1..3 : tasks[t].pc = "done"
    /\ granted[Limiter("EXCHANGE_INFO").name] = 22
    /\ granted[Limiter("FIAT_ORDERS").name] = 90000
    /\ granted[Limiter("USER_ASSETS").name] = 0

\* the candle open times since + k*interval up to until
OpenTimes ==
    {Get(heap[1], "since").i + k * baseStep : k \in 0..MaxTime}
       \cap (0..Get(heap[1], "until").i)
SliceStart(t) == Get(heap[tasks[t].params], "startTime").i
SliceEnd(t) == Get(heap[tasks[t].params], "endTime").i

\* C21: klines returns one flat list whose elements are the klines of all slices in
\* slice order, not one list per slice.
C21_FlatKlines ==
    kind = "klines" /\ result.kind = "return" =>
       result.value = ListBody(Flatten([t \in 1..Len(tasks) |-> tasks[t].ret.items]))

\* C22: every slice [startTime, endTime] klines transmits holds at most `limit`
\* candle open times startTime + k*interval.
C22_SliceWithinLimit ==
    kind = "klines" =>
       \A t \in 1..Len(tasks) : Transmitted(t) =>
          LET start == Get(tasks[t].sent, "startTime").i
              end == Get(tasks[t].sent, "endTime").i
              interval == Get(tasks[t].sent, "interval").i
          IN Cardinality({k \in 0..(MaxTime + 1) : start + k * interval <= end})
                <= Get(tasks[t].sent, "limit").i

\* C23: once klines has created its sub-requests, every candle open time
\* since + k*interval <= until lies in exactly one slice, the slices are pairwise
\* disjoint, and every sub-request transmits its own slice.
C23_SlicesPartition ==
    kind = "klines" /\ pc \in {"gather", "done"} =>
       /\ \A c \in OpenTimes :
             Cardinality({t \in 1..Len(tasks) : SliceStart(t) <= c /\ c <= SliceEnd(t)}) = 1
       /\ \A t, u \in 1..Len(tasks) : t < u => SliceEnd(t) < SliceStart(u)
       /\ \A t \in 1..Len(tasks) : Transmitted(t) =>
             /\ Get(tasks[t].sent, "startTime").i = SliceStart(t)
             /\ Get(tasks[t].sent, "endTime").i = SliceEnd(t)

C23_Witness ==
    /\ kind = "klines" /\ result.kind = "return"
    /\ Len(tasks) = 2 /\ baseStep = 1
    /\ Cardinality(OpenTimes) = 4
    /\ SliceStart(1) = 0 /\ SliceEnd(1) = 1 /\ SliceStart(2) = 2 /\ SliceEnd(2) = 3

\* C24: when spotTrades is given both since and until, every request it transmits
\* carries a startTime and an endTime at most 24 hours apart, with
\* since <= startTime and endTime <= until.
C24_SubRequestWithinDay ==
    args.method = "spotTrades" /\ args.since.t = "int" /\ args.until.t = "int" =>
       \A t \in 1..Len(tasks) : Transmitted(t) =>
          /\ Has(tasks[t].sent, "startTime") /\ Has(tasks[t].sent, "endTime")
          /\ Get(tasks[t].sent, "endTime").i - Get(tasks[t].sent, "startTime").i <= INTERVAL
          /\ Get(tasks[t].sent, "startTime").i >= args.since.i
          /\ Get(tasks[t].sent, "endTime").i <= args.until.i

\* the same for since and until other than 0
C24_NonZeroTimes ==
    args.method = "spotTrades" /\ Truthy(args.since) /\ Truthy(args.until) =>
       C24_SubRequestWithinDay

\* C29: in _tradesCycle a request that raised ends spotTrades with that very error
\* and no value, whatever was fetched before; spotTrades returns only when no
\* request has raised.
C29_CycleErrorPropagates ==
    args.method = "spotTrades" /\ kind = "trades" =>
       /\ \A t \in 1..Len(tasks) :
             tasks[t].pc = "failed" /\ pc = "done" => result = Raise(tasks[t].exc)
       /\ result.kind = "return" => \A t \in 1..Len(tasks) : tasks[t].pc = "done"

C29_Witness ==
    /\ args.method = "spotTrades" /\ kind = "trades"
    /\ Len(tasks) = 2 /\ tasks[1].pc = "done" /\ tasks[2].pc = "failed"
    /\ Len(data) = MaxLimit
    /\ result = Raise("DecodeError")

SigningKeys == {"recvWindow", "timestamp", "signature"}
\* the entries of a payload that come from the parameters
FromParams(out) == SelectSeq(out, LAMBDA e : e.k \notin SigningKeys)
KeysOf(d) == [j \in 1..Len(d) |-> d[j].k]
Dropped(v) == v \in {NoneV, TextV(<< >>), ListV(<< >>)}

\* what the claim expects under the key of a parameter that is kept
Serialized(v) ==
    CASE v = BoolV(TRUE) -> TextV(<<"t", "r", "u", "e">>)
      [] v = BoolV(FALSE) -> TextV(<<"f", "a", "l", "s", "e">>)
      [] v = ListV(<< IntV(1), IntV(12) >>) -> TextV(<<"[", "1", ",", "1", "2", "]">>)
      [] v = ListV(<< TextV(<<"B", "T", "C">>), TextV(<<"E", "T", "H">>) >>) ->
            TextV(<<"[", "\"", "B", "T", "C", "\"", ",", "\"", "E", "T", "H", "\"", "]">>)
      [] OTHER -> v

\* C25: in every payload _preparePayload builds, a parameter that is None or an
\* empty collection is absent, and the others appear in their original order under
\* their original keys: True/False as the text true/false, a non-empty list as its
\* compact JSON text, any other value as it was.
C25_PayloadConversion ==
    kind = "_preparePayload" =>
       \A n \in 1..Len(data) :
          LET out == FromParams(data[n])
              kept == SelectSeq(args.params, LAMBDA e : ~Dropped(e.v))
          IN /\ KeysOf(out) = KeysOf(kept)
             /\ \A j \in 1..Len(kept) : out[j].v = Serialized(kept[j].v)
             /\ \A j \in 1..Len(out) :
                   out[j].v.t = "text" => \A c \in 1..Len(out[j].v.c) : out[j].v.c[c] # " "

C25_Witness ==
    /\ kind = "_preparePayload" /\ Len(data) = 1
    /\ args.params = << [k |-> "needBtcValuation", v |-> BoolV(TRUE)],
                        [k |-> "symbol", v |-> TextV(<< >>)] >>
    /\ args.security = "NONE"
    /\ data[1] = << [k |-> "needBtcValuation", v |-> TextV(<<"t", "r", "u", "e">>)] >>

\* C26: a payload carries recvWindow, timestamp and signature exactly when the
\* security class is TRADE or USER_DATA, and then all three; the signature is then
\* the last entry and covers exactly the entries before it, recvWindow and
\* timestamp among them.
C26_SignedFieldsLast ==
    kind = "_preparePayload" =>
       \A n \in 1..Len(data) :
          LET out == data[n]
              signed == args.security \in {"TRADE", "USER_DATA"}
          IN /\ \A k \in SigningKeys : Has(out, k) <=> signed
             /\ signed =>
                   /\ out[Len(out)].k = "signature"
                   /\ out[Len(out)].v.msg = SubSeq(out, 1, Len(out) - 1)
                   /\ Has(out[Len(out)].v.msg, "recvWindow")
                   /\ Has(out[Len(out)].v.msg, "timestamp")

C26_Witness ==
    /\ kind = "_preparePayload" /\ Len(data) = 1
    /\ args.security = "TRADE"
    /\ Len(data[1]) = 5 /\ data[1][5].k = "signature"
    /\ Len(data[1][5].v.msg) = 4

\* C27: _preparePayload leaves the dict it is given as it was; two payloads built
\* from the same parameters are identical for an unsigned endpoint, and differ at
\* most in the values of timestamp and signature for a signed one.
C27_Idempotent ==
    kind = "_preparePayload" =>
       /\ heap[1] = args.params
       /\ Len(data) = 2 =>
             /\ args.security \notin SIGNED => data[1] = data[2]
             /\ KeysOf(data[1]) = KeysOf(data[2])
             /\ \A j \in 1..Len(data[1]) :
                   data[1][j].k \notin {"timestamp", "signature"} => data[1][j] = data[2][j]

C27_Witness ==
    /\ kind = "_preparePayload" /\ Len(data) = 2
    /\ args.security = "USER_DATA"
    /\ \E j \in 1..Len(args.params) : args.params[j].v.t = "list" /\ Len(args.params[j].v.l) = 2
    /\ Get(data[1], "timestamp") # Get(data[2], "timestamp")
    /\ Get(data[1], "signature") # Get(data[2], "signature")

KnownCodes == {400, 401, 403, 404, 405, 500, 503}

\* C28: _checkHTTPErrors gives None for 200, for each of the codes 400, 401, 403,
\* 404, 405, 500 and 503 a message no other known code has and that is not the
\* fallback, and for any other code the fallback message.
C28_StatusMessages ==
    kind = "_checkHTTPErrors" /\ data # << >> =>
       LET code == args.code
           msg == data[1]
       IN /\ code = 200 <=> msg = NoneV
          /\ code \in KnownCodes =>
                /\ msg.t = "msg" /\ msg # MsgV("Unknown error.")
                /\ \A other \in KnownCodes \ {code} : _checkHTTPErrors(other) # msg
          /\ code \notin KnownCodes \cup {200} => msg = MsgV("Unknown error.")

C28_Witness ==
    /\ kind = "_checkHTTPErrors" /\ args.code = 503
    /\ data = << MsgV("Service Unavailable. Possible causes: 1. Maintenance. Try again later") >>

\* C30: constructing a descriptor whose URL prefix is neither api nor sapi, or a
\* /sapi descriptor whose limit type is none of IP, UID, IP_SEC, fails; a descriptor
\* that was constructed has a limiter, and its acquire does not fail for want of one.
C30_FailsAtConstruction ==
    kind = "BaseEndpoint" /\ data # << >> =>
       LET unresolved ==
              \/ args.URL[1] \notin {"api", "sapi"}
              \/ args.URL[1] = "sapi" /\ args.LIMIT_TYPE \notin {"IP", "UID", "IP_SEC"}
       IN /\ unresolved => data[1].exc # "none"
          /\ data[1].exc = "none" => "_limiter" \in DOMAIN data[1]
          /\ Len(data) = 2 => data[2].exc = "none"

\* C31: the cached public IP is accessed under mutual exclusion: at no time are two
\* fetches of the address under way, at most one fetch ever stores an address, and
\* all callers that were given an address were given the same one.
C31_FetchOnce ==
    kind = "_getPublicIP" =>
       LET got == {t \in 1..Len(tasks) : tasks[t].pc = "done" /\ tasks[t].ret # NoneV}
       IN /\ Cardinality({t \in 1..Len(tasks) : tasks[t].pc = "fetching"}) <= 1
          /\ Cardinality({t \in got : tasks[t].fetched}) <= 1
          /\ \A t, u \in got : tasks[t].ret = tasks[u].ret

\* C32: no step of _paginatedRequests, _tradesCycle or _split_request_interval, nor
\* of the requests they make, changes the caller's params dict, whether the call
\* goes on to return or to raise: page, fromId, startTime and endTime are written
\* to the private copy only.
C32_ParamsUntouched ==
    [][(kind \in {"paged", "trades", "split"} => heap[1] = heap'[1])]_vars

C32_Witness ==
    /\ kind = "trades" /\ result.kind = "raise" /\ Len(tasks) = 2
    /\ Has(heap[1], "startTime") /\ ~Has(heap[2], "startTime")
    /\ Get(heap[1], "fromId") = NoneV /\ Get(heap[2], "fromId").t = "int"

\* the parameters of a transmitted payload other than the cursor, the start-time
\* filter and the stamp and signature made anew for every request
CycleFixed(sent) == SelectSeq(sent, LAMBDA e : e.k \notin {"fromId", "startTime", "timestamp", "signature"})

\* C33: every request of _tradesCycle after the first is transmitted with fromId =
\* (id of the last item of the response before it) + 1 and without startTime, and
\* with the other parameters of the first request.
C33_CursorAdvance ==
    kind = "trades" =>
       \A t \in 2..Len(tasks) : Transmitted(t) =>
          LET prev == tasks[t - 1].ret.items
          IN /\ Has(tasks[t].sent, "fromId")
             /\ Get(tasks[t].sent, "fromId") = IntV(prev[Len(prev)] + 1)
             /\ ~Has(tasks[t].sent, "startTime")
             /\ CycleFixed(tasks[t].sent) = CycleFixed(tasks[1].sent)

C33_Witness ==
    /\ kind = "trades" /\ Len(tasks) = 3 /\ Transmitted(3)
    /\ Has(tasks[1].sent, "startTime") /\ ~Has(tasks[1].sent, "fromId")
    /\ Get(tasks[2].sent, "fromId") = IntV(IdStride + 2)
    /\ Get(tasks[3].sent, "fromId") = IntV(IdStride + 4)

\* C34: in _paginatedRequests a request other than that for page 1 exists only once
\* page 1 has been answered, and has then neither acquired nor sent anything before
\* that; when the request for page 1 fails, or its answer carries no data, it stays
\* the only request and the call raises.
C34_FirstPageFirst ==
    kind = "paged" =>
       /\ Len(tasks) > 1 => tasks[1].pc = "done" /\ tasks[1].ret.kind = "page"
       /\ Len(tasks) >= 1 /\ tasks[1].pc # "done" =>
             /\ Len(tasks) = 1
             /\ pc \in {"await", "done"}
             /\ pc = "done" => tasks[1].pc = "failed" /\ result = Raise(tasks[1].exc)
       /\ Len(tasks) >= 1 /\ tasks[1].pc = "done" /\ tasks[1].ret.kind # "page" =>
             Len(tasks) = 1

C34_Witness ==
    /\ kind = "paged" /\ Len(tasks) = 3
    /\ tasks[1].pc = "done" /\ tasks[1].ret.total = 4
    /\ Transmitted(2) /\ Transmitted(3)

\* C35: every member of the endpoint catalog is constructed with a limiter, its
\* weight is strictly positive and at most that limiter's max_rate, and that weight
\* is the amount its acquire asks for; for the endpoints the client calls it is the
\* limiter the requests draw from.
C35_WeightWithinLimiter ==
    kind = "BaseEndpoint" /\ args.method = "Endpoints" =>
       /\ Len(data) >= 1 =>
             /\ data[1].exc = "none" /\ "_limiter" \in DOMAIN data[1]
             /\ 0 < args.WEIGHT /\ args.WEIGHT <= data[1]._limiter.max_rate
             /\ args.name \in EndpointNames =>
                   /\ data[1]._limiter.max_rate = Limiter(args.name).max_rate
                   /\ data[1]._limiter.time_period = Limiter(args.name).time_period
                   /\ acquire(args.name) = args.WEIGHT
       /\ Len(data) = 2 =>
             /\ data[2] = [exc |-> "none", amount |-> args.WEIGHT]
             /\ data[2].amount <= data[1]._limiter.max_rate

C35_Witness ==
    /\ kind = "BaseEndpoint" /\ args.method = "Endpoints" /\ args.name = "FIAT_ORDERS"
    /\ Len(data) = 2 /\ data[2].amount = 90000
    /\ data[1]._limiter = [max_rate |-> 180000, time_period |-> 60]

\* the trades the first request of the cycle asks for: all of them, or those from
\* the fromId given by the caller
CycleWanted ==
    LET f == Get(heap[1], "fromId")
    IN {x \in serverTrades.ids : f.t = "int" => x >= f.i}

\* C36: against a server that holds finitely many trades and answers every request
\* with the first `limit` trades from the cursor, _tradesCycle without endTime and
\* with enforceLimit False never raises, makes floor(n / limit) + 1 requests for the
\* n trades wanted, returns each of them once in increasing id order, and does
\* return.
C36_CycleTerminates ==
    /\ [](LET limit == Get(heap[1], "limit").i
              n == Cardinality(CycleWanted)
          IN /\ result.kind # "raise"
             /\ Len(tasks) <= (n \div limit) + 1
             /\ result.kind = "return" =>
                   /\ Len(tasks) = (n \div limit) + 1
                   /\ result.value = ListBody(Sorted(CycleWanted)))
    /\ <>(result.kind = "return")

C36_Witness ==
    /\ serverTrades.t = "set" /\ serverTrades.ids = {1, 2, 3, 4}
    /\ Get(heap[1], "limit").i = 2 /\ Get(heap[1], "fromId") = NoneV
    /\ Len(tasks) = 3 /\ tasks[3].ret = ListBody(<< >>)
    /\ result = Return(ListBody(<<1, 2, 3, 4>>))

\* C37: for start < end the slices the loop of _split_request_interval computes, one
\* per pass, tile [start, end]: the first starts at start, each one starts where the
\* one before it ended, is not empty and spans at most maxRange, and when the loop
\* ends there are ceil((end - start) / maxRange) of them and the last ends at end.
C37_SlicesTile ==
    [][(kind = "split" /\ pc = "loop" /\ WindowStart < WindowEnd =>
          IF Len(tasks') > Len(tasks)
          THEN LET start == Get(heap'[2], "startTime").i
                   end == Get(heap'[2], "endTime").i
               IN /\ start < end /\ end - start <= maxRange /\ end <= WindowEnd
                  /\ Len(tasks) = 0 => start = WindowStart
                  /\ Len(tasks) > 0 => start = Get(heap[2], "endTime").i
          ELSE pc' = "gather" =>
                  /\ Len(tasks) = Ceil(WindowEnd - WindowStart, maxRange)
                  /\ Get(heap[2], "endTime").i = WindowEnd)]_vars

C37_Witness ==
    /\ kind = "split" /\ args = NoArgs /\ pc = "gather"
    /\ WindowStart = 0 /\ WindowEnd = 3 /\ maxRange = 2
    /\ Len(tasks) = 2
    /\ Get(heap[2], "startTime") = IntV(2) /\ Get(heap[2], "endTime") = IntV(3)

\* the number of slices of spotTrades(since, until) on the time-split path
DaySlices ==
    IF args.until.i > args.since.i THEN Ceil(args.until.i - args.since.i, INTERVAL) ELSE 0

C39_WeightNotReturned ==
    [][(/\ \A l \in LimiterNames : granted'[l] >= granted[l]
        /\ \A t \in 1..Len(tasks) :
              tasks[t].pc = "sent" /\ tasks'[t].pc \in {"done", "failed"} =>
                 granted' = granted)]_vars

C39_Witness ==
    /\ kind = "session" /\ Len(tasks) = 2
    /\ tasks[1].ep = "KLINES" /\ tasks[1].pc = "failed"
    /\ tasks[2].ep = "SPOT_TRADES" /\ tasks[2].pc = "done"
    /\ granted["_sharedLimiter"] = 22

\* C40: the limiter a request draws from depends on its endpoint only, not on the
\* BinanceAsync instance that makes it: every limiter has granted the weights of the
\* requests of all instances together, so two instances that call the same endpoint,
\* or any two /api endpoints, have their weights counted in one limiter.
C40_OneLimiterForAllClients ==
    kind = "clients" =>
       /\ \A l \in LimiterNames : granted[l] = GrantedTo(l, Len(tasks))
       /\ \A t, u \in 1..Len(tasks) :
             /\ tasks[t].self # tasks[u].self
             /\ tasks[t].pc # "created" /\ tasks[u].pc # "created"
             /\ tasks[t].ep = tasks[u].ep \/ {tasks[t].ep, tasks[u].ep} \subseteq ApiEndpoints
             => granted[Limiter(tasks[t].ep).name]
                   >= Endpoints[tasks[t].ep].WEIGHT + Endpoints[tasks[u].ep].WEIGHT

C40_Witness ==
    /\ kind = "clients" /\ Len(tasks) = 2
    /\ tasks[1].self # tasks[2].self
    /\ tasks[1].ep = "FIAT_ORDERS" /\ tasks[2].ep = "FIAT_ORDERS"
    /\ tasks[1].pc = "done" /\ tasks[2].pc = "sent"
    /\ granted["FIAT_ORDERS"] = 180000

=============================================================================
